---- MODULE Spec2Model ----
(***************************************************************************)
(* Campus Connect backend: the two opportunity tables of schema.sql, the   *)
(* model classes that query them and the Express handlers that call the    *)
(* models.  A request is a process; every `await query(...)` is one atomic *)
(* SQL statement and one step of the request.  server is the HTTP server   *)
(* and the process around it: listening, the pool, the shutdown timers.    *)
(*                                                                         *)
(* Columns kept per row: id, work_type / event_type, title, apply_url,     *)
(* status, is_verified, is_featured, view_count, posted_date, source,      *)
(* external_id.                                                            *)
(* `title` stands for the descriptive columns that ON CONFLICT refreshes.  *)
(***************************************************************************)
EXTENDS Integers, Sequences, FiniteSets, TLC

VARIABLES opportunities_work, opportunities_event, issued, req, server

vars == <<opportunities_work, opportunities_event, issued, req, server>>

(* ------------------------------ bounds --------------------------------- *)

\* requests the clients send in one run (each slot of req serves one request)
NumReqs == 3
\* identifiers gen_random_uuid() hands out in one run
MaxIds == 2

Reqs == 1..NumReqs
Ids == 1..MaxIds
\* a path parameter that is no UUID
BadId == 0

(* --------------------------- program constants ------------------------- *)

\* the grace period of gracefulShutdown, in milliseconds
GraceMs == 10000

\* the process after app.listen: listening, pool open, no signal received.
\* ended holds the requests whose connection has ended, clock is the time in
\* milliseconds, timers the times the armed setTimeout callbacks are due,
\* callbacks the number of server.close callbacks not yet run; signalAt (the
\* times signals arrived) and pending (the requests in flight when the first
\* signal arrived) are history.
Serving ==
    [listening |-> TRUE, exited |-> FALSE, code |-> 0, pool |-> "open",
     ended |-> {}, clock |-> 0, timers |-> {}, callbacks |-> 0,
     signals |-> 0, signalAt |-> {}, pending |-> {}]

Null == "NULL"

WorkTypes == {"internship", "job"}
EventTypes == {"hackathon", "learning", "scholarship"}
Types == WorkTypes \cup EventTypes
\* the create endpoints the clients of the model post to
CreateTypes == {"internship", "job", "hackathon", "scholarship"}

WorkStatuses == {"active", "expired"}
EventStatuses == {"active", "expired", "archived"}

\* this.tableName / this.typeField of the two model singletons
Models == {"work", "event"}
TypeField(m) == IF m = "work" THEN "work_type" ELSE "event_type"
ModelOfType(t) == IF t \in WorkTypes THEN "work" ELSE "event"

Tbl(m) == IF m = "work" THEN opportunities_work ELSE opportunities_event

\* SET table m to rows
SetTbl(m, rows) ==
    IF m = "work"
    THEN opportunities_work' = rows /\ UNCHANGED opportunities_event
    ELSE opportunities_event' = rows /\ UNCHANGED opportunities_work

RowsById(m, id) == {x \in Tbl(m) : x.id = id}

(* ------------------------------- URLs ---------------------------------- *)
\* new URL(url): protocol and hostname (a tuple of dot-separated labels)

UrlGood == [protocol |-> "https:", hostname |-> <<"good", "example">>, path |-> "/a"]
UrlLocal == [protocol |-> "http:", hostname |-> <<"localhost">>, path |-> "/a"]

Octet2(l) == l \in {"16", "17", "18", "19", "20", "21", "22", "23", "24", "25",
                    "26", "27", "28", "29", "30", "31"}

isValidUrl(url) ==
    /\ url.protocol \in {"http:", "https:"}
    /\ LET h == url.hostname IN
       ~ \/ h = <<"localhost">>
         \/ h = <<"127", "0", "0", "1">>
         \/ (Len(h) > 2 /\ h[1] = "192" /\ h[2] = "168")
         \/ (Len(h) > 1 /\ h[1] = "10")
         \/ (Len(h) > 2 /\ h[1] = "172" /\ Octet2(h[2]))

\* schema CHECK (apply_url ~* '^https?://')
UrlCheck(url) == url.protocol \in {"http:", "https:"}

\* title.trim().length === 0 / CHECK (LENGTH(TRIM(title)) > 0)
IsBlank(s) == s \in {"", " "}

(* ------------------------- request processes --------------------------- *)

\* a JSON object / query string with no key
Empty == [k \in {} |-> ""]

Has(obj, f) == f \in DOMAIN obj

\* req[r]: pc is the await the handler is suspended at; id, type and body are
\* the request's path parameter, endpoint type and JSON body / filters;
\* found, model and probes are the handler's locals (opportunity, model, and
\* the tables findById was called on, total of findAll); status, action and
\* data are the response.  next and results are the loop positions and the
\* results arrays of the two bulkUpsert calls of a batch.  stmt is the data
\* statement findAll sent (<<>> before it is sent) and pagination the
\* pagination object of its answer.  sent tells which of the two bulkUpsert
\* calls has a statement in the database, summary is the summary of a batch
\* answer.  method and path are the method and the segment after
\* /api/opportunities/ of a request the router dispatched.
IdleReq ==
    [pc |-> "idle", op |-> "none", id |-> BadId, type |-> "none", body |-> Empty,
     found |-> {}, model |-> "none", probes |-> <<>>,
     total |-> 0, status |-> 0, action |-> "none", data |-> {},
     next |-> [work |-> 1, event |-> 1],
     results |-> [work |-> <<>>, event |-> <<>>],
     stmt |-> <<>>, pagination |-> <<>>,
     sent |-> [work |-> FALSE, event |-> FALSE], summary |-> <<>>,
     method |-> "none", path |-> [word |-> "", id |-> BadId]]

\* res.status(s).json(...) ends the handler
Respond(q, s) == [q EXCEPT !.pc = "done", !.status = s, !.found = {}]

(* ---------------------------- errorHandler ----------------------------- *)

Err(code, message) == [code |-> code, message |-> message]

\* err.message.toLowerCase().includes('not found')
IncludesNotFound(message) == message = "Opportunity not found"

errorHandler(err) ==
    CASE err.code = "23505" -> 409
      [] err.code = "23503" -> 400
      [] err.code = "23502" -> 400
      [] err.code = "22P02" -> 400
      [] IncludesNotFound(err.message) -> 404
      [] OTHER -> 500

(* ----------------------------- validators ------------------------------ *)

\* title.length of the titles the model sends
StrLen(s) == CASE s = "" -> 0 [] s = "T501" -> 501 [] OTHER -> 1

\* validateWorkOpportunity / validateEventOpportunity: the fields in error
\* (the two validators agree on title and apply_url, the fields a body of
\* the model carries)
validateOpportunity(data) ==
    (IF ~Has(data, "title") \/ data["title"] = "" THEN {"title"}
     ELSE IF IsBlank(data["title"]) THEN {"title"}
     ELSE IF StrLen(data["title"]) > 500 THEN {"title"}
     ELSE {})
    \cup
    (IF ~Has(data, "apply_url") THEN {"apply_url"}
     ELSE IF ~isValidUrl(data["apply_url"]) THEN {"apply_url"}
     ELSE {})

\* a validator that lets every path parameter through
isValidUUID_Any(id) == TRUE

\* /^[0-9a-f]{8}-...$/i.test(id)
isValidUUID(id) == id # BadId

(* --------------------------- table constraints ------------------------- *)

StatusesOf(m) == IF m = "work" THEN WorkStatuses ELSE EventStatuses
TypesOf(m) == IF m = "work" THEN WorkTypes ELSE EventTypes

\* the CHECK constraints of a table on one row
CheckOK(m, row) ==
    /\ row[TypeField(m)] \in TypesOf(m)
    /\ ~IsBlank(row.title)
    /\ StrLen(row.title) <= 500
    /\ UrlCheck(row.apply_url)
    \* the column is nullable, and a CHECK whose value is NULL passes
    /\ row.status = Null \/ row.status \in StatusesOf(m)
    /\ row.view_count >= 0

\* a table without the unique constraint on external_id
ExternalIdTaken_Never(m, row) == FALSE

\* UNIQUE(external_id): NULLs never collide
ExternalIdTaken(m, row) ==
    /\ row.external_id # Null
    /\ \E x \in Tbl(m) : x.id # row.id /\ x.external_id = row.external_id

(* ------------------------------ upsert --------------------------------- *)

NoErr == Err("", "")
UrlNull == [protocol |-> Null, hostname |-> <<>>, path |-> Null]

\* data.f || null, data.f || 'manual', data.f || false
OrElse(data, f, dflt) == IF Has(data, f) /\ data[f] # "" THEN data[f] ELSE dflt
OrFalse(data, f) == Has(data, f) /\ data[f] = TRUE
UrlOf(data) == IF Has(data, "apply_url") THEN data["apply_url"] ELSE UrlNull

\* the VALUES of the INSERT; status, view_count and posted_date take the column
\* DEFAULTs (NOW() is the number of the insert)
WorkValues(data, workType, id) ==
    [id |-> id, work_type |-> workType,
     title |-> IF Has(data, "title") THEN data["title"] ELSE Null,
     apply_url |-> UrlOf(data), status |-> "active",
     is_verified |-> OrFalse(data, "is_verified"),
     is_featured |-> OrFalse(data, "is_featured"),
     view_count |-> 0, posted_date |-> issued + 1,
     source |-> OrElse(data, "source", "manual"),
     external_id |-> OrElse(data, "external_id", Null)]

EventValues(data, eventType, id) ==
    [id |-> id, event_type |-> eventType,
     title |-> IF Has(data, "title") THEN data["title"] ELSE Null,
     apply_url |-> UrlOf(data), status |-> "active",
     is_verified |-> OrFalse(data, "is_verified"),
     is_featured |-> OrFalse(data, "is_featured"),
     view_count |-> 0, posted_date |-> issued + 1,
     source |-> OrElse(data, "source", "manual"),
     external_id |-> OrElse(data, "external_id", Null)]

\* an INSERT with no arbiter index to collide on
ConflictRows_None(m, type, url) == {}

\* ON CONFLICT (work_type, apply_url) / (event_type, apply_url): the rows the
\* proposed row collides with on the arbiter index
ConflictRows(m, type, url) ==
    {x \in Tbl(m) : x[TypeField(m)] = type /\ x.apply_url = url}

\* the work table's CASE used on both tables
ReviveStatus_ExpiredOnly(m, status) == IF status = "expired" THEN "active" ELSE status

\* status = CASE WHEN status = 'expired' THEN 'active' ELSE status END, and
\* IN ('expired', 'archived') for the event table
ReviveStatus(m, status) ==
    IF m = "work"
    THEN (IF status = "expired" THEN "active" ELSE status)
    ELSE (IF status \in {"expired", "archived"} THEN "active" ELSE status)

\* a DO UPDATE SET that assigns every column of the proposed row but the key
ConflictUpdate_All(m, old, excluded) ==
    [excluded EXCEPT !.id = old.id, !.status = ReviveStatus(m, old.status)]

\* a DO UPDATE SET that also resets the counter
ConflictUpdate_ResetCounter(m, old, excluded) ==
    [old EXCEPT !.status = ReviveStatus(m, old.status), !.title = excluded.title,
                !.view_count = 0]

\* DO UPDATE SET ...: the columns the conflict path assigns
ConflictUpdate(m, old, excluded) ==
    [old EXCEPT !.status = ReviveStatus(m, old.status),
                !.title = excluded.title]

\* a RETURNING clause that never looks at xmax
ActionTag_Created(inserted) == "created"

\* CASE WHEN xmax = 0 THEN 'created' ELSE 'updated' END
ActionTag(inserted) == IF inserted THEN "created" ELSE "updated"

\* One INSERT ... ON CONFLICT ... DO UPDATE ... RETURNING statement on table m:
\* rows is the table afterwards, out the RETURNING row, err what query() throws.
create(m, data, type, newid) ==
    LET proposed == IF m = "work" THEN WorkValues(data, type, newid)
                    ELSE EventValues(data, type, newid)
        hit == ConflictRows(m, type, proposed.apply_url)
        fail(code) == [rows |-> Tbl(m), out |-> {}, action |-> "none",
                       err |-> Err(code, "constraint")]
    IN  IF proposed.title = Null \/ proposed.apply_url = UrlNull THEN fail("23502")
        ELSE IF ~CheckOK(m, proposed) THEN fail("23514")
        ELSE IF hit # {}
        THEN LET old == CHOOSE x \in hit : TRUE
                 new == ConflictUpdate(m, old, proposed)
             IN  [rows |-> (Tbl(m) \ {old}) \cup {new}, out |-> {new},
                  action |-> ActionTag(FALSE), err |-> NoErr]
        ELSE IF RowsById(m, newid) # {} THEN fail("23505")
        ELSE IF ExternalIdTaken(m, proposed) THEN fail("23505")
        ELSE [rows |-> Tbl(m) \cup {proposed}, out |-> {proposed},
              action |-> ActionTag(TRUE), err |-> NoErr]

(* ------------------------------ inputs --------------------------------- *)

PayloadA == [title |-> "A", apply_url |-> UrlGood]
PayloadB == [title |-> "B", apply_url |-> UrlGood, is_verified |-> TRUE,
             is_featured |-> TRUE, external_id |-> "ext-1", source |-> "scraper"]
PayloadLocal == [title |-> "A", apply_url |-> UrlLocal]
Payloads == {PayloadA, PayloadB, PayloadLocal}

(* --------------------- POST /internships, /jobs, ... ------------------- *)

\* slots are taken in order: the requests are interchangeable
CanStart(r) == req[r].pc = "idle" /\ \A q \in Reqs : q < r => req[q].pc # "idle"

\* createInternship, createJob, createHackathon, createScholarship,
\* createLearning up to the await: validation, then the query is sent
StartCreate(r) ==
    /\ CanStart(r)
    /\ \E t \in CreateTypes, data \in Payloads :
         LET q == [req[r] EXCEPT !.op = "create", !.type = t, !.body = data,
                                 !.model = ModelOfType(t)]
         IN  req' = [req EXCEPT ![r] =
                       IF validateOpportunity(data) # {} THEN Respond(q, 400)
                       ELSE [q EXCEPT !.pc = "upsert"]]
    /\ UNCHANGED <<opportunities_work, opportunities_event, issued, server>>

\* the statement runs in the database and the handler answers; uuids is what
\* gen_random_uuid() may return
Upsert(r, uuids) ==
    /\ req[r].pc = "upsert"
    /\ \E newid \in uuids :
         LET q == req[r]
             res == create(q.model, q.body, q.type, newid)
         IN  /\ res.action = "created" => issued < MaxIds
             /\ SetTbl(q.model, res.rows)
             /\ issued' = IF res.action = "created" THEN issued + 1 ELSE issued
             /\ UNCHANGED server
             /\ req' = [req EXCEPT ![r] =
                          IF res.err # NoErr THEN Respond(q, errorHandler(res.err))
                          ELSE [Respond(q, 201) EXCEPT !.action = res.action,
                                                       !.data = res.out]]

\* gen_random_uuid() never repeats a value
FreshUuids == {issued + 1}

\* gen_random_uuid() returns any value: the primary keys are per table, and
\* nothing but the width of a UUID keeps the two tables' keys apart
AnyUuids == Ids

(* ------------------- /opportunities/:id: the resolver ------------------ *)

\* a resolver that asks the event table first
ProbeOrder_EventFirst == <<"event", "work">>

\* the order getById, update and delete call findById on the two models
ProbeOrder == <<"work", "event">>

\* an allow-list that lets identity columns through
allowedFields_Wide ==
    {"title", "status", "apply_url", "source", "external_id", "view_count"}

\* BaseOpportunityModel.update: the fields a PATCH may write
allowedFields ==
    {"title", "city", "country", "work_style", "organization", "company",
     "image_url", "deadline", "tags", "stipend", "duration", "salary",
     "experience", "skills", "who_can_apply", "team_size", "fees", "perks",
     "event_date", "learning_type", "domain", "is_verified", "is_featured",
     "status"}

\* the columns of the two tables (schema.sql)
CommonColumns ==
    {"id", "title", "apply_url", "city", "country", "organization", "image_url",
     "deadline", "tags", "source", "external_id", "status", "is_verified",
     "is_featured", "view_count", "posted_date", "last_seen_date", "created_at",
     "updated_at"}
WorkColumns ==
    CommonColumns \cup {"work_type", "work_style", "company", "stipend",
                        "duration", "salary", "experience", "skills",
                        "who_can_apply"}
EventColumns ==
    CommonColumns \cup {"event_type", "team_size", "fees", "perks", "event_date",
                        "learning_type", "domain"}
Columns(m) == IF m = "work" THEN WorkColumns ELSE EventColumns

\* the setClause of update(): the allowed fields of the body, in the body
SetFields(updates) == {f \in DOMAIN updates : f \in allowedFields}

\* SET f = $k for every field of the setClause, on one row
Assign(m, row, updates) ==
    [c \in DOMAIN row |->
        IF c \in SetFields(updates) THEN updates[c] ELSE row[c]]

\* BaseOpportunityModel.update(id, updates) once the setClause is not empty:
\* UPDATE ... SET ... WHERE id = $n RETURNING *
update(m, id, updates) ==
    LET hit == RowsById(m, id)
        fail(e) == [rows |-> Tbl(m), out |-> {}, err |-> e]
    IN  IF ~(SetFields(updates) \subseteq Columns(m))
        THEN fail(Err("42703", "column does not exist"))
        ELSE IF hit = {} THEN fail(Err("", "Opportunity not found"))
        ELSE LET old == CHOOSE x \in hit : TRUE
                 new == Assign(m, old, updates)
             IN  IF ~CheckOK(m, new) THEN fail(Err("23514", "constraint"))
                 ELSE [rows |-> (Tbl(m) \ {old}) \cup {new}, out |-> {new},
                       err |-> NoErr]

\* SET view_count = view_count + 2
incrementViewCount_Twice(m, id) ==
    {IF x.id = id THEN [x EXCEPT !.view_count = @ + 2] ELSE x : x \in Tbl(m)}

\* BaseOpportunityModel.incrementViewCount(id): the table afterwards
incrementViewCount(m, id) ==
    {IF x.id = id THEN [x EXCEPT !.view_count = @ + 1] ELSE x : x \in Tbl(m)}

\* a delete that does not look at the number of rows its statement returned
delete_NoThrow(m, id, hardDelete) ==
    [rows |-> IF hardDelete THEN Tbl(m) \ RowsById(m, id) ELSE Tbl(m),
     err |-> NoErr]

\* BaseOpportunityModel.delete(id, hardDelete)
delete(m, id, hardDelete) ==
    LET hit == RowsById(m, id)
    IN  IF hit = {}
        THEN [rows |-> Tbl(m), err |-> Err("", "Opportunity not found")]
        ELSE IF hardDelete
        THEN [rows |-> Tbl(m) \ hit, err |-> NoErr]
        ELSE LET new == {[x EXCEPT !.status = "archived"] : x \in hit}
             IN  IF \E x \in new : ~CheckOK(m, x)
                 THEN [rows |-> Tbl(m), err |-> Err("23514", "constraint")]
                 ELSE [rows |-> (Tbl(m) \ hit) \cup new, err |-> NoErr]

\* both controllers branches deleting hard
HardDelete_Always(m) == TRUE

\* delete: workModel.delete(id, true), eventModel.delete(id, false)
HardDelete(m) == m = "work"

\* updates.work_type || updates.event_type
ChangesType(updates) ==
    \/ (Has(updates, "work_type") /\ updates["work_type"] # "")
    \/ (Has(updates, "event_type") /\ updates["event_type"] # "")

BodyWorkType == [work_type |-> "job", title |-> "B"]
BodyEventType == [event_type |-> "hackathon", title |-> "B"]
BodyEmptyType == [work_type |-> "", title |-> "B"]
BodyIdentity ==
    [id |-> MaxIds, apply_url |-> UrlLocal, view_count |-> 7, source |-> "patched",
     external_id |-> "ext-2", status |-> "expired"]
Bodies == {BodyWorkType, BodyEventType, BodyEmptyType, BodyIdentity}

PathIds == Ids \cup {BadId}

\* getById up to its first await
StartGet(r) ==
    /\ CanStart(r)
    /\ \E id \in PathIds :
         LET q == [req[r] EXCEPT !.op = "get", !.id = id]
         IN  req' = [req EXCEPT ![r] =
                       IF ~isValidUUID(id) THEN Respond(q, 400)
                       ELSE [q EXCEPT !.pc = "find"]]
    /\ UNCHANGED <<opportunities_work, opportunities_event, issued, server>>

\* update up to its first await
StartPatchOf(r, bodies) ==
    /\ CanStart(r)
    /\ \E id \in PathIds, updates \in bodies :
         LET q == [req[r] EXCEPT !.op = "patch", !.id = id, !.body = updates]
         IN  req' = [req EXCEPT ![r] =
                       IF ~isValidUUID(id) THEN Respond(q, 400)
                       ELSE IF ChangesType(updates) THEN Respond(q, 400)
                       ELSE [q EXCEPT !.pc = "find"]]
    /\ UNCHANGED <<opportunities_work, opportunities_event, issued, server>>

StartPatch(r) == StartPatchOf(r, Bodies)

\* bodies that set the status: to a value of both tables, of the event table
\* only, of neither, and to JSON null
StatusBodies ==
    {[status |-> "expired"], [status |-> "archived"], [status |-> "deleted"],
     [status |-> Null]}

\* delete up to its first await
StartDelete(r) ==
    /\ CanStart(r)
    /\ \E id \in PathIds :
         LET q == [req[r] EXCEPT !.op = "delete", !.id = id]
         IN  req' = [req EXCEPT ![r] =
                       IF ~isValidUUID(id) THEN Respond(q, 400)
                       ELSE [q EXCEPT !.pc = "find"]]
    /\ UNCHANGED <<opportunities_work, opportunities_event, issued, server>>

(* ------------------------------ router --------------------------------- *)
\* A path segment is a word, or the text of a UUID; id is what the handlers
\* read as req.params.id: the identifier the text spells, and for a word a
\* text that is no UUID.
Word(w) == [word |-> w, id |-> BadId]
Uuid(id) == [word |-> "", id |-> id]

Segments == {Word("stats"), Word("latest")} \cup {Uuid(id) : id \in Ids}

Methods == {"GET", "PATCH", "DELETE"}

\* the routes of opportunityRoutes.js in the order router.get, router.patch
\* and router.delete registered them
Routes ==
    << [method |-> "GET", path |-> ":id", handler |-> "getById"],
       [method |-> "PATCH", path |-> ":id", handler |-> "update"],
       [method |-> "DELETE", path |-> ":id", handler |-> "delete"],
       [method |-> "GET", path |-> "stats", handler |-> "getStats"] >>

\* a parameter matches every segment, a literal only itself
RouteMatches(route, method, seg) ==
    route.method = method /\ (route.path = ":id" \/ route.path = seg.word)

\* Express runs the first registered route that matches; the handlers here
\* never call next(), so no later route runs
HandlerOf(method, seg) ==
    LET matching == SelectSeq(Routes, LAMBDA route : RouteMatches(route, method, seg))
    IN  IF matching = <<>> THEN "notFound" ELSE Head(matching).handler

\* the operation a handler is
OpOf(handler) ==
    CASE handler = "getById" -> "get"
      [] handler = "update" -> "patch"
      [] handler = "delete" -> "delete"
      [] handler = "getStats" -> "stats"
      [] OTHER -> "none"

\* a request for /api/opportunities/<segment>: the router picks the handler,
\* which runs up to its first await
Route(r) ==
    /\ CanStart(r)
    /\ \E method \in Methods, seg \in Segments, updates \in Bodies :
         LET handler == HandlerOf(method, seg)
             q == [req[r] EXCEPT !.method = method, !.path = seg,
                                 !.op = OpOf(handler), !.id = seg.id,
                                 !.body = IF handler = "update" THEN updates
                                          ELSE Empty]
         IN  req' = [req EXCEPT ![r] =
                       CASE handler = "notFound" -> Respond(q, 404)
                         [] handler = "getStats" -> [q EXCEPT !.pc = "stats"]
                         [] OTHER ->
                              IF ~isValidUUID(q.id) THEN Respond(q, 400)
                              ELSE IF handler = "update" /\ ChangesType(updates)
                                   THEN Respond(q, 400)
                              ELSE [q EXCEPT !.pc = "find"]]
    /\ UNCHANGED <<opportunities_work, opportunities_event, issued, server>>

\* where a handler goes once findById returned a row
AfterFound(q) ==
    CASE q.op = "get" -> [q EXCEPT !.pc = "incr"]
      [] q.op = "delete" -> [q EXCEPT !.pc = "delete"]
      [] q.op = "patch" ->
           \* model.update throws before it queries when no field is allowed
           IF SetFields(q.body) = {}
           THEN Respond(q, errorHandler(Err("", "No valid fields to update")))
           ELSE [q EXCEPT !.pc = "write"]

\* await model.findById(id) on the next table of the probe order
Find(r) ==
    /\ req[r].pc = "find"
    /\ LET q == req[r]
           m == ProbeOrder[Len(q.probes) + 1]
           rows == RowsById(m, q.id)
           p == [q EXCEPT !.probes = Append(@, m)]
       IN  req' = [req EXCEPT ![r] =
                     IF rows # {}
                     THEN AfterFound([p EXCEPT !.found = rows, !.model = m])
                     ELSE IF Len(p.probes) < Len(ProbeOrder) THEN p
                     ELSE Respond(p, 404)]
    /\ UNCHANGED <<opportunities_work, opportunities_event, issued, server>>

\* getById: await model.incrementViewCount(id), then the answer
Incr(r) ==
    /\ req[r].pc = "incr"
    /\ LET q == req[r]
       IN  /\ SetTbl(q.model, incrementViewCount(q.model, q.id))
           /\ req' = [req EXCEPT ![r] =
                        [Respond(q, 200) EXCEPT !.data =
                            {[x EXCEPT !.view_count = @ + 1] : x \in q.found}]]
    /\ UNCHANGED <<issued, server>>

\* update: await model.update(id, updates), then the answer
Write(r) ==
    /\ req[r].pc = "write"
    /\ LET q == req[r]
           res == update(q.model, q.id, q.body)
       IN  /\ SetTbl(q.model, res.rows)
           /\ req' = [req EXCEPT ![r] =
                        IF res.err # NoErr THEN Respond(q, errorHandler(res.err))
                        ELSE [Respond(q, 200) EXCEPT !.data = res.out]]
    /\ UNCHANGED <<issued, server>>

\* delete: await model.delete(id, hard), then the answer
Delete(r) ==
    /\ req[r].pc = "delete"
    /\ LET q == req[r]
           res == delete(q.model, q.id, HardDelete(q.model))
       IN  /\ SetTbl(q.model, res.rows)
           /\ req' = [req EXCEPT ![r] =
                        IF res.err # NoErr THEN Respond(q, errorHandler(res.err))
                        ELSE Respond(q, 204)]
    /\ UNCHANGED <<issued, server>>

(* -------------------------- Filter Compiler ---------------------------- *)

\* if (filters.k) for a string-valued query parameter
Truthy(filters, k) == Has(filters, k) /\ filters[k] # ""

\* A list-valued parameter (tags, skills, domain) is [array |-> TRUE, items |-> a]
\* when Express parsed an array and [array |-> FALSE, items |-> the pieces
\* between commas] when it is one string; the empty string is <<"">>.
TruthyList(filters, k) ==
    Has(filters, k) /\ (filters[k].array \/ filters[k].items # <<"">>)

\* t.trim() on the tokens the model sends
Trim(t) == CASE t = " ai" -> "ai" [] t = "ai " -> "ai" [] OTHER -> t

\* Array.isArray(v) ? v : v.split(',').map(t => t.trim())
ToArray(v) == IF v.array THEN v.items ELSE [i \in DOMAIN v.items |-> Trim(v.items[i])]

Cond(key, col, op) == [key |-> key, col |-> col, op |-> op, p |-> 0]

\* Days of the forward window of a deadline filter
DeadlineDays(v) ==
    CASE v = "upcoming" -> 30 [] v = "this_week" -> 7 [] v = "this_month" -> 30
      [] OTHER -> 0

\* the if-blocks of buildWhereClause, in the order of the code
FilterBlocks == <<"type", "status", "city", "country", "work_style", "featured",
                  "verified", "search", "tags", "skills", "domain", "fees",
                  "deadline">>

\* a status block that pushes its default whatever the caller asks
BlockApplies_StatusAlways(filters, k) ==
    CASE k = "status" -> TRUE
      [] k \in {"featured", "verified"} -> Has(filters, k) /\ filters[k] = "true"
      [] k \in {"tags", "skills", "domain"} -> TruthyList(filters, k)
      [] k = "deadline" ->
            Truthy(filters, "deadline") /\ DeadlineDays(filters["deadline"]) > 0
      [] OTHER -> Truthy(filters, k)

\* the condition of one if-block
BlockApplies(filters, k) ==
    CASE k = "status" -> Truthy(filters, "status") \/ ~Truthy(filters, "includeInactive")
      [] k \in {"featured", "verified"} -> Has(filters, k) /\ filters[k] = "true"
      [] k \in {"tags", "skills", "domain"} -> TruthyList(filters, k)
      [] k = "deadline" ->
            Truthy(filters, "deadline") /\ DeadlineDays(filters["deadline"]) > 0
      [] OTHER -> Truthy(filters, k)

\* the predicate one if-block pushes
BlockCond(typeField, k) ==
    CASE k = "type" -> Cond(k, typeField, "=")
      [] k \in {"status", "work_style", "fees"} -> Cond(k, k, "=")
      [] k \in {"city", "country"} -> Cond(k, k, "like")
      [] k = "featured" -> Cond(k, "is_featured", "istrue")
      [] k = "verified" -> Cond(k, "is_verified", "istrue")
      [] k = "search" -> Cond(k, "title,organization,company", "fts")
      [] k \in {"tags", "skills", "domain"} -> Cond(k, k, "overlap")
      [] k = "deadline" -> Cond(k, k, "between")

\* a deadline block that pushes the end of the window only
BlockValues_OneDate(filters, k) ==
    CASE k = "status" ->
            IF Truthy(filters, "status") THEN <<filters["status"]>> ELSE <<"active">>
      [] k \in {"featured", "verified"} -> <<>>
      [] k \in {"city", "country"} -> <<[pattern |-> <<"%", filters[k], "%">>]>>
      [] k \in {"tags", "skills", "domain"} -> <<ToArray(filters[k])>>
      [] k = "deadline" -> <<DeadlineDays(filters["deadline"])>>
      [] OTHER -> <<filters[k]>>

\* the values one if-block pushes
BlockValues(filters, k) ==
    CASE k = "status" ->
            IF Truthy(filters, "status") THEN <<filters["status"]>> ELSE <<"active">>
      [] k \in {"featured", "verified"} -> <<>>
      \* `%${filters.city}%`
      [] k \in {"city", "country"} -> <<[pattern |-> <<"%", filters[k], "%">>]>>
      [] k \in {"tags", "skills", "domain"} -> <<ToArray(filters[k])>>
      [] k = "deadline" -> <<0, DeadlineDays(filters["deadline"])>>
      [] OTHER -> <<filters[k]>>

\* the blocks that push, in order
Pushing(filters) == SelectSeq(FilterBlocks, LAMBDA k : BlockApplies(filters, k))

RECURSIVE ParamIndex(_, _, _)
\* paramIndex when the i-th pushing block runs
ParamIndex(filters, ks, i) ==
    IF i = 1 THEN 1
    ELSE ParamIndex(filters, ks, i - 1) + Len(BlockValues(filters, ks[i - 1]))

RECURSIVE Concat(_, _)
Concat(seqs, n) == IF n = 0 THEN <<>> ELSE Concat(seqs, n - 1) \o seqs[n]

\* BaseOpportunityModel.buildWhereClause(filters) of the model whose typeField
\* is given: the predicates in order, the bound values, the next free index
buildWhereClause(typeField, filters) ==
    LET ks == Pushing(filters)
    IN  [conditions |-> [i \in DOMAIN ks |->
                           [BlockCond(typeField, ks[i])
                              EXCEPT !.p = ParamIndex(filters, ks, i)]],
         values |-> Concat([i \in DOMAIN ks |-> BlockValues(filters, ks[i])], Len(ks)),
         paramIndex |-> ParamIndex(filters, ks, Len(ks) + 1)]

\* the placeholders $k in the text of a predicate: none in is_featured = true,
\* $p and $p+1 in BETWEEN, $p in the others
Placeholders(c) ==
    CASE c.op = "istrue" -> {}
      [] c.op = "between" -> {c.p, c.p + 1}
      [] OTHER -> {c.p}

\* the columns a predicate names
CondColumns(c) ==
    IF c.op = "fts" THEN {"title", "organization", "company"} ELSE {c.col}

\* one predicate on one row, for the predicates over the columns a row keeps
\* city, country, work_style, fees, tags, skills, domain and deadline are NULL
\* in every row of the model, organization and company too: a comparison
\* with them is not true, and the text search sees the title alone
EvalCond(row, c, values) ==
    CASE c.op = "=" -> c.col \in DOMAIN row /\ row[c.col] = values[c.p]
      [] c.op = "istrue" -> row[c.col] = TRUE
      [] c.op = "fts" -> row.title = values[c.p]
      [] OTHER -> FALSE

\* a WHERE clause whose predicates are joined with OR
Selected_Or(m, where) ==
    {x \in Tbl(m) : \/ where.conditions = <<>>
                    \/ \E i \in DOMAIN where.conditions :
                          EvalCond(x, where.conditions[i], where.values)}

\* the rows of table m the WHERE clause selects
Selected(m, where) ==
    {x \in Tbl(m) : \A i \in DOMAIN where.conditions :
                       EvalCond(x, where.conditions[i], where.values)}

\* the statement names a column the table does not have
UndefinedColumn(m, where) ==
    \E i \in DOMAIN where.conditions :
        ~(CondColumns(where.conditions[i]) \subseteq Columns(m))

(* --------------------------- Sort Compiler ----------------------------- *)

validSortFields == {"posted_date", "deadline", "view_count", "created_at",
                    "event_date", "title"}

\* safeOrder.toLowerCase() / toUpperCase() on the spellings the model sends
Lower(o) == CASE o \in {"asc", "ASC", "Asc"} -> "asc"
              [] o \in {"desc", "DESC", "Desc"} -> "desc"
              [] OTHER -> o
Upper(o) == CASE o \in {"asc", "ASC", "Asc"} -> "ASC"
              [] o \in {"desc", "DESC", "Desc"} -> "DESC"
              [] OTHER -> o

\* A sort / order parameter as Express hands it over: a string (?sort=title),
\* an array of strings (?sort=title&sort=deadline) or an object (?sort[a]=b)
Str(s) == [kind |-> "string", items |-> <<s>>]
Arr(items) == [kind |-> "array", items |-> items]
Obj == [kind |-> "object", items |-> <<>>]

\* the last element of an array instead of the first
First_Last(v) == IF v.kind = "array" THEN Str(v.items[Len(v.items)]) ELSE v

\* Array.isArray(v) ? v[0] : v
First(v) == IF v.kind = "array" THEN Str(v.items[1]) ELSE v

\* BaseOpportunityModel.buildOrderClause(sort, order)
buildOrderClause(sort, order) ==
    LET safeSort == First(sort)
        safeOrder == First(order)
    IN  [field |-> IF safeSort.kind = "string" /\ safeSort.items[1] \in validSortFields
                   THEN safeSort.items[1] ELSE "posted_date",
         dir |-> IF safeOrder.kind = "string"
                    /\ Lower(safeOrder.items[1]) \in {"asc", "desc"}
                 THEN Upper(safeOrder.items[1]) ELSE "DESC"]

\* the sort key of a row: posted_date and created_at are the insert's NOW();
\* deadline and event_date are NULL in every row of the model
TitleRank(t) == CASE t = "A" -> 1 [] t = "B" -> 2 [] OTHER -> 0
SortKey(row, field) ==
    CASE field \in {"posted_date", "created_at"} -> row.posted_date
      [] field = "view_count" -> row.view_count
      [] field = "title" -> TitleRank(row.title)
      [] OTHER -> 0

\* the orders ORDER BY may return a set of rows in (ties in any order)
Ordered(rows, ord) ==
    {s \in [1..Cardinality(rows) -> rows] :
        /\ \A i, j \in DOMAIN s : i # j => s[i] # s[j]
        /\ \A i, j \in DOMAIN s : i < j =>
              IF ord.dir = "ASC"
              THEN SortKey(s[i], ord.field) <= SortKey(s[j], ord.field)
              ELSE SortKey(s[i], ord.field) >= SortKey(s[j], ord.field)}

(* ----------------------- GET /internships, ... ------------------------- *)

DefaultPage == 1
DefaultLimit == 10
MaxLimit == 50

Max(a, b) == IF a > b THEN a ELSE b
Min(a, b) == IF a < b THEN a ELSE b

\* parseInt(v) on the page / limit strings the model sends: the leading
\* integer of the string, {} for NaN
parseInt(v) ==
    CASE v = "-1" -> {0 - 1} [] v = "0" -> {0} [] v = "1" -> {1} [] v = "2" -> {2}
      [] v = "3" -> {3} [] v = "2nd" -> {2} [] v = "50" -> {50} [] v = "51" -> {51}
      [] OTHER -> {}

\* parseInt(v) || dflt, v undefined when the parameter is absent
IntOr(query, k, dflt) ==
    LET n == IF Has(query, k) THEN parseInt(query[k]) ELSE {}
    IN  IF n = {} \/ n = {0} THEN dflt ELSE CHOOSE x \in n : TRUE

\* validatePagination(req.query.page, req.query.limit)
validatePagination(query) ==
    [page |-> Max(1, IntOr(query, "page", DefaultPage)),
     limit |-> Min(MaxLimit, Max(1, IntOr(query, "limit", DefaultLimit)))]

\* { ...obj, k: v }
With(obj, k, v) == [x \in DOMAIN obj \cup {k} |-> IF x = k THEN v ELSE obj[x]]

\* the key under which a list handler forces its type into the filters:
\* getInternships and getJobs write work_type, the event handlers write type
ForcedKey(t) == IF t \in WorkTypes THEN "work_type" ELSE "type"

\* req.query.sort || ..., req.query.order || ...
Given(query, k) == Has(query, k) /\ query[k] # Str("")

\* the filters object a list handler builds from req.query
ListFilters(t, query) ==
    With(With(With(query, ForcedKey(t), t),
              "sort", IF Given(query, "sort") THEN query["sort"] ELSE Str("posted_date")),
         "order", IF Given(query, "order") THEN query["order"] ELSE Str("desc"))

QueryNone == Empty
QueryType == [type |-> "job", includeInactive |-> "true"]
Queries == {QueryNone, QueryType}

\* the query strings bags with one more parameter k, of the values vals
Extend(bags, k, vals) == bags \cup {With(b, k, v) : b \in bags, v \in vals}

\* query strings that name a status, ask for the inactive rows or for the
\* featured ones, and query strings that page through the rows
StatusQueries ==
    Extend(Extend(Extend({Empty}, "status", {"expired", "archived", ""}),
                  "includeInactive", {"true", "false"}),
           "featured", {"true"})
PageQueries ==
    Extend(Extend({Empty, [includeInactive |-> "true"]}, "page", {"2"}),
           "limit", {"1", "2"})
ListedTypes == {"internship", "job", "hackathon"}

\* the parameters a query string may carry for the Filter Compiler, each with
\* the values the model sends: the keys buildWhereClause reads, and two it
\* does not read
ListOf(items) == [array |-> FALSE, items |-> items]
FilterChoices ==
    <<[key |-> "type", vals |-> {"job"}],
      [key |-> "status", vals |-> {"expired", ""}],
      [key |-> "includeInactive", vals |-> {"true"}],
      [key |-> "city", vals |-> {"pune"}],
      [key |-> "country", vals |-> {"india"}],
      [key |-> "work_style", vals |-> {"remote"}],
      [key |-> "featured", vals |-> {"true", "false"}],
      [key |-> "verified", vals |-> {"true"}],
      [key |-> "search", vals |-> {"B"}],
      [key |-> "tags", vals |-> {ListOf(<<"ai", " ai">>), [array |-> TRUE, items |-> <<"ai ">>]}],
      [key |-> "skills", vals |-> {ListOf(<<"ai ">>)}],
      [key |-> "domain", vals |-> {ListOf(<<"ai">>)}],
      [key |-> "fees", vals |-> {"unpaid"}],
      [key |-> "deadline", vals |-> {"this_week", "soon"}],
      [key |-> "experience", vals |-> {"2"}],
      [key |-> "foo", vals |-> {"bar"}]>>

\* parameters in one query string of the model
MaxFilterKeys == 2

RECURSIVE BagsUpTo(_, _)
\* the query strings of at most n of the first i parameters
BagsUpTo(i, n) ==
    IF i = 0 THEN {Empty}
    ELSE BagsUpTo(i - 1, n) \cup
         (IF n = 0 THEN {}
          ELSE {With(b, FilterChoices[i].key, v) :
                   b \in BagsUpTo(i - 1, n - 1), v \in FilterChoices[i].vals})

\* a query string with every parameter
QueryAll ==
    [type |-> "job", status |-> "expired", includeInactive |-> "true",
     city |-> "pune", country |-> "india", work_style |-> "remote",
     featured |-> "true", verified |-> "true", search |-> "B",
     tags |-> ListOf(<<"ai", " ai">>), skills |-> ListOf(<<"ai ">>),
     domain |-> ListOf(<<"ai">>), fees |-> "unpaid", deadline |-> "this_week",
     experience |-> "2", foo |-> "bar"]

FilterQueries == BagsUpTo(Len(FilterChoices), MaxFilterKeys) \cup {QueryAll}

\* query strings that sort, and query strings that page
SortQueries ==
    Extend(Extend({Empty}, "sort",
                  {Str("title"), Str("Title"), Str("event_date"), Str("rating"),
                   Str(""), Arr(<<"view_count", "title">>),
                   Arr(<<"rating", "title">>), Obj}),
           "order",
           {Str("asc"), Str("ASC"), Str("Asc"), Str("desc"), Str("up"), Str(""),
            Arr(<<"asc", "desc">>), Arr(<<"up", "asc">>), Obj})
PagingQueries ==
    Extend(Extend({Empty}, "page", {"-1", "0", "1", "2", "abc"}),
           "limit", {"-1", "0", "1", "2", "50", "51", "abc", "2nd"})

\* a second posting of the same site
UrlOther == [protocol |-> "https:", hostname |-> <<"good", "example">>, path |-> "/b"]

\* the row an INSERT of data left in table m as the id-th insert, its status
\* as the sweep, a PATCH or a delete left it
StoredRow(m, data, type, id, status) ==
    [(IF m = "work" THEN WorkValues(data, type, id) ELSE EventValues(data, type, id))
        EXCEPT !.status = status, !.posted_date = id]

\* the tables of a server that has been running: two internships and a job,
\* two hackathons and a scholarship, some of them no longer active
StoredWork ==
    {{StoredRow("work", PayloadA, "internship", 1, s1),
      StoredRow("work", With(PayloadB, "apply_url", UrlOther), "internship", 3, s3),
      StoredRow("work", PayloadA, "job", 5, "active")} :
        s1 \in WorkStatuses, s3 \in WorkStatuses}
StoredEvent ==
    {{StoredRow("event", PayloadA, "hackathon", 2, s2),
      StoredRow("event", With(PayloadB, "apply_url", UrlOther), "hackathon", 4, s4),
      StoredRow("event", PayloadA, "scholarship", 6, "active")} :
        s2 \in EventStatuses, s4 \in {"active", "archived"}}
StoredIds == 6

\* getInternships, getJobs, getHackathons, getScholarships, getLearning up to
\* the count query of findAll, for the endpoints and query strings given
StartListOf(r, types, queries) ==
    /\ CanStart(r)
    /\ \E t \in types, query \in queries :
         req' = [req EXCEPT ![r] =
                   [@ EXCEPT !.op = "list", !.type = t, !.model = ModelOfType(t),
                             !.body = ListFilters(t, query), !.pc = "count"]]
    /\ UNCHANGED <<opportunities_work, opportunities_event, issued, server>>

StartList(r) == StartListOf(r, Types, Queries)

\* findAll: SELECT COUNT(*) ... WHERE ...
Count(r) ==
    /\ req[r].pc = "count"
    /\ LET q == req[r]
           where == buildWhereClause(TypeField(q.model), q.body)
       IN  req' = [req EXCEPT ![r] =
                     IF UndefinedColumn(q.model, where)
                     THEN Respond(q, errorHandler(Err("42703", "column does not exist")))
                     ELSE [q EXCEPT !.pc = "data",
                                    !.total = Cardinality(Selected(q.model, where))]]
    /\ UNCHANGED <<opportunities_work, opportunities_event, issued, server>>

\* Math.ceil(total / limit)
Ceil(total, limit) == (total + limit - 1) \div limit

\* the pagination object of findAll
Pagination(total, page, limit) ==
    [total |-> total, page |-> page, limit |-> limit,
     totalPages |-> Ceil(total, limit), hasMore |-> page * limit < total]

\* values.push(limit, offset) and LIMIT $paramIndex OFFSET $paramIndex + 1
DataStmt(where, ord, page, limit) ==
    [conditions |-> where.conditions,
     values |-> where.values \o <<limit, (page - 1) * limit>>,
     limitAt |-> where.paramIndex, offsetAt |-> where.paramIndex + 1,
     order |-> ord]

\* a LIMIT without the OFFSET
Page_NoSkip(s, limit, offset) == {s[i] : i \in {j \in DOMAIN s : j <= limit}}

\* the rows LIMIT / OFFSET keep of the ordered rows s
Page(s, limit, offset) ==
    {s[i] : i \in {j \in DOMAIN s : j > offset /\ j <= offset + limit}}

\* findAll: SELECT * ... WHERE ... ORDER BY ... LIMIT ... OFFSET ..., then the answer
Data(r) ==
    /\ req[r].pc = "data"
    /\ LET q == req[r]
           where == buildWhereClause(TypeField(q.model), q.body)
           ord == buildOrderClause(q.body["sort"], q.body["order"])
           pg == validatePagination(q.body)
           stmt == DataStmt(where, ord, pg.page, pg.limit)
           sent == [q EXCEPT !.stmt = <<stmt>>]
       IN  IF ord.field \notin Columns(q.model)
           THEN req' = [req EXCEPT ![r] =
                          Respond(sent, errorHandler(Err("42703", "column does not exist")))]
           ELSE \E s \in Ordered(Selected(q.model, where), ord) :
                   req' = [req EXCEPT ![r] =
                             [Respond(sent, 200) EXCEPT
                                !.data = Page(s, stmt.values[stmt.limitAt],
                                              stmt.values[stmt.offsetAt]),
                                !.pagination =
                                   <<Pagination(q.total, pg.page, pg.limit)>>]]
    /\ UNCHANGED <<opportunities_work, opportunities_event, issued, server>>

(* ----------------------------- POST /batch ---------------------------- *)

\* a JSON null among the items of the array
NullItem == [null |-> TRUE]
IsNull(opp) == Has(opp, "null")

\* req.body.opportunities of a body that has an array there
Items(body) == body["opportunities"].items

\* opp.source = source || 'batch' on every item of the body
Sourced(body) ==
    [i \in DOMAIN Items(body) |->
        With(Items(body)[i], "source", OrElse(body, "source", "batch"))]

\* workOpps / eventOpps: the items whose type is one of the model's types
Opps(m, body) ==
    SelectSeq(Sourced(body),
              LAMBDA opp : Truthy(opp, "type") /\ opp["type"] \in TypesOf(m))

\* the batches the clients send: an empty one, and items of both tables with
\* one item that names no type
ItemOf(t, title) == [type |-> t, title |-> title, apply_url |-> UrlGood]
BatchEmpty == [source |-> "scraper", opportunities |-> Arr(<<>>)]
BatchMixed ==
    [source |-> "scraper",
     opportunities |-> Arr(<<ItemOf("internship", "B"), ItemOf("hackathon", "B"),
                             [title |-> "B", apply_url |-> UrlGood]>>)]
BatchWork ==
    [opportunities |-> Arr(<<ItemOf("internship", "A"), ItemOf("internship", "B")>>)]
Batches == {BatchEmpty, BatchMixed, BatchWork}
MaxBatch == 500

\* the bodies a scraper may post: without the array, with a string or an
\* object in its place, with one item too many, with an item that has no
\* title, one of an unknown type and a good one, with a posting on
\* localhost, and with a null among the items
BatchAbsent == [source |-> "scraper"]
BatchText == [source |-> "scraper", opportunities |-> Str("internship")]
BatchObject == [source |-> "scraper", opportunities |-> Obj]
BatchLarge ==
    [source |-> "scraper",
     opportunities |-> Arr([i \in 1..(MaxBatch + 1) |-> ItemOf("internship", "A")])]
BatchFaulty ==
    [source |-> "scraper",
     opportunities |-> Arr(<<[type |-> "internship", apply_url |-> UrlGood],
                             [type |-> "webinar", title |-> "A", apply_url |-> UrlGood],
                             ItemOf("internship", "A")>>)]
BatchLocal ==
    [opportunities |-> Arr(<<[type |-> "hackathon", title |-> "A",
                              apply_url |-> UrlLocal]>>)]
BatchNull ==
    [source |-> "scraper", opportunities |-> Arr(<<ItemOf("job", "A"), NullItem>>)]
BatchInputs ==
    {BatchAbsent, BatchText, BatchObject, BatchEmpty, BatchLarge, BatchMixed,
     BatchFaulty, BatchLocal, BatchNull}

\* a limit that is never reached
TooLarge_Never(n) == FALSE

\* opportunities.length > 500
TooLarge(n) == n > MaxBatch

\* !opportunities || !Array.isArray(opportunities)
NoArray(body) == ~Has(body, "opportunities") \/ body["opportunities"].kind # "array"

\* a pool that runs one statement of a request at a time
Dispatch_InTurn(body) ==
    [work |-> Opps("work", body) # <<>>,
     event |-> Opps("work", body) = <<>> /\ Opps("event", body) # <<>>]

\* Promise.all([workModel.bulkUpsert(workOpps), eventModel.bulkUpsert(eventOpps)]):
\* each call runs to its first await, so the first statement of each partition
\* that has items is sent
Dispatch(body) == [m \in Models |-> Opps(m, body) # <<>>]

\* batchCreate up to Promise.all: the body is checked and split; the forEach
\* throws at `opp.source = ...` when an item is null
StartBatchOf(r, batches) ==
    /\ CanStart(r)
    /\ \E body \in batches :
         LET q == [req[r] EXCEPT !.op = "batch", !.body = body]
         IN  req' = [req EXCEPT ![r] =
                       IF NoArray(body) THEN Respond(q, 400)
                       ELSE IF Len(Items(body)) = 0 THEN Respond(q, 400)
                       ELSE IF TooLarge(Len(Items(body))) THEN Respond(q, 400)
                       ELSE IF \E i \in DOMAIN Items(body) : IsNull(Items(body)[i])
                       THEN Respond(q, errorHandler(Err("", "Cannot set properties of null")))
                       ELSE [q EXCEPT !.pc = "batch", !.sent = Dispatch(body)]]
    /\ UNCHANGED <<opportunities_work, opportunities_event, issued, server>>

StartBatch(r) == StartBatchOf(r, Batches)

\* bulkUpsert of model m: the statement of `await this.create(opp, opp.type)`
\* runs and returns, the catch turns an error into a failed result, and the
\* loop sends the statement of the next item if there is one
BulkUpsert(r, m, uuids) ==
    /\ req[r].pc = "batch"
    /\ req[r].sent[m]
    /\ \E newid \in uuids :
         LET q == req[r]
             opp == Opps(m, q.body)[q.next[m]]
             res == create(m, opp, opp["type"], newid)
             result == IF res.err # NoErr
                       THEN [id |-> BadId, type |-> opp["type"], table |-> m,
                             status |-> "failed"]
                       ELSE [id |-> (CHOOSE x \in res.out : TRUE).id,
                             type |-> opp["type"], table |-> m,
                             status |-> res.action]
         IN  /\ res.action = "created" => issued < MaxIds
             /\ SetTbl(m, res.rows)
             /\ issued' = IF res.action = "created" THEN issued + 1 ELSE issued
             /\ UNCHANGED server
             /\ req' = [req EXCEPT ![r] =
                          [q EXCEPT !.next[m] = @ + 1,
                                    !.results[m] = Append(@, result),
                                    !.sent[m] = q.next[m] < Len(Opps(m, q.body))]]

\* allResults.filter(r => r.status === s).length
Tally(results, s) ==
    Len(SelectSeq(results["work"] \o results["event"], LAMBDA x : x.status = s))

\* the summary of the answer
Summary(q) ==
    [total |-> Len(Items(q.body)), created |-> Tally(q.results, "created"),
     updated |-> Tally(q.results, "updated"), failed |-> Tally(q.results, "failed")]

\* Promise.all resolved: both loops are over, the summary is answered
BatchAnswer(r) ==
    /\ req[r].pc = "batch"
    /\ \A m \in Models : ~req[r].sent[m]
    /\ req' = [req EXCEPT ![r] =
                 [Respond(req[r], 200) EXCEPT !.summary = <<Summary(req[r])>>]]
    /\ UNCHANGED <<opportunities_work, opportunities_event, issued, server>>

(* --------------------------- specification ----------------------------- *)

Init ==
    /\ opportunities_work = {}
    /\ opportunities_event = {}
    /\ issued = 0
    /\ req = [r \in Reqs |-> IdleReq]
    /\ server = Serving

Next ==
    \E r \in Reqs :
       \/ StartCreate(r)
       \/ Upsert(r, FreshUuids)
       \/ StartGet(r)
       \/ StartPatch(r)
       \/ StartDelete(r)
       \/ Find(r)
       \/ Incr(r)
       \/ Write(r)
       \/ Delete(r)
       \/ StartList(r)
       \/ Count(r)
       \/ Data(r)

Spec == Init /\ [][Next]_vars

\* the same server when identifiers may repeat across the two tables
NextAnyUuid ==
    \E r \in Reqs :
       \/ StartCreate(r)
       \/ Upsert(r, AnyUuids)
       \/ StartGet(r)
       \/ StartPatch(r)
       \/ StartDelete(r)
       \/ Find(r)
       \/ Incr(r)
       \/ Write(r)
       \/ Delete(r)
       \/ StartList(r)
       \/ Count(r)
       \/ Data(r)

SpecAnyUuid == Init /\ [][NextAnyUuid]_vars

\* the writers of the view counter side by side: creates and batches that
\* re-ingest, fetches, PATCHes that name the counter, deletes
NextCounter ==
    \E r \in Reqs :
       \/ StartCreate(r) /\ req'[r].body = PayloadA
                         /\ req'[r].type \in {"internship", "hackathon"}
       \/ Upsert(r, FreshUuids)
       \/ StartBatch(r)
       \/ BulkUpsert(r, "work", FreshUuids)
       \/ BulkUpsert(r, "event", FreshUuids)
       \/ BatchAnswer(r)
       \/ StartGet(r)
       \/ StartPatch(r) /\ req'[r].body = BodyIdentity
       \/ StartDelete(r)
       \/ Find(r)
       \/ Incr(r)
       \/ Write(r)
       \/ Delete(r)

SpecCounter == Init /\ [][NextCounter]_vars

\* a server whose tables hold rows of every status: one client lists while
\* another deletes
InitList ==
    /\ issued = StoredIds
    /\ opportunities_work \in StoredWork
    /\ opportunities_event \in StoredEvent
    /\ req = [r \in Reqs |-> IdleReq]
    /\ server = Serving

NextList ==
    \/ StartListOf(1, ListedTypes, StatusQueries \cup PageQueries)
    \/ Count(1)
    \/ Data(1)
    \/ StartDelete(2)
    \/ Find(2)
    \/ Delete(2)

SpecList == InitList /\ [][NextList]_vars

\* scrapers posting batches next to single creates and PATCHes
NextBatch ==
    \E r \in Reqs :
       \/ StartBatchOf(r, BatchInputs)
       \/ BulkUpsert(r, "work", FreshUuids)
       \/ BulkUpsert(r, "event", FreshUuids)
       \/ BatchAnswer(r)
       \/ StartCreate(r) /\ req'[r].body \in {PayloadA, PayloadLocal}
                         /\ req'[r].type \in {"internship", "hackathon"}
       \/ Upsert(r, FreshUuids)
       \/ StartPatch(r) /\ req'[r].body = BodyIdentity
       \/ Find(r)
       \/ Write(r)

SpecBatch == Init /\ [][NextBatch]_vars

\* the routes of /api/opportunities/<segment> over rows that creates stored
NextRoute ==
    \E r \in Reqs :
       \/ StartCreate(r) /\ req'[r].body = PayloadA
                         /\ req'[r].type \in {"internship", "hackathon"}
       \/ Upsert(r, FreshUuids)
       \/ Route(r)
       \/ Find(r)
       \/ Incr(r)
       \/ Write(r)
       \/ Delete(r)

SpecRoute == Init /\ [][NextRoute]_vars

\* the writers of the status column: creates and re-ingestions, PATCHes that
\* set the status, deletes
NextStatus ==
    \E r \in Reqs :
       \/ StartCreate(r) /\ req'[r].body = PayloadA
                         /\ req'[r].type \in {"internship", "hackathon"}
       \/ Upsert(r, FreshUuids)
       \/ StartPatchOf(r, StatusBodies)
       \/ StartDelete(r)
       \/ Find(r)
       \/ Write(r)
       \/ Delete(r)

SpecStatus == Init /\ [][NextStatus]_vars

(* --------------------------- process lifecycle ------------------------- *)
\* termination signals the process receives in one run
MaxSignals == 2
\* the step of the clock in milliseconds, and the steps of one run
TickMs == 5000
MaxTicks == 3
MaxClock == MaxTicks * TickMs

\* the process has not exited; the server accepts new connections
Alive == ~server.exited
Accepting == Alive /\ server.listening

\* the connection of request r is open: from the request to the end of the
\* connection that carried its answer
Connected(r) == req[r].pc # "idle" /\ r \notin server.ended

\* a server whose close callback does not wait for its connections
Drained_Always == TRUE

\* the 'close' event of the HTTP server: no connection is left
Drained == \A r \in Reqs : ~Connected(r)

\* setTimeout(..., 10000) armed at time now
Deadline(now) == now + GraceMs

\* a timer is due
Due == \E t \in server.timers : t <= server.clock

\* process.exit(code)
Exit(s, code) == [s EXCEPT !.exited = TRUE, !.code = code]

\* the connection of an answered request ends
End(r) ==
    /\ Alive
    /\ req[r].pc = "done" /\ r \notin server.ended
    /\ server' = [server EXCEPT !.ended = @ \cup {r}]
    /\ UNCHANGED <<opportunities_work, opportunities_event, issued, req>>

\* gracefulShutdown(signal) on SIGINT or SIGTERM: server.close(callback)
\* stops the listening and registers the callback, setTimeout arms the timer
Signal ==
    /\ Alive
    /\ server.signals < MaxSignals
    /\ Deadline(server.clock) <= MaxClock
    /\ server' = [server EXCEPT
                    !.listening = FALSE,
                    !.callbacks = @ + 1,
                    !.timers = @ \cup {Deadline(server.clock)},
                    !.signals = @ + 1,
                    !.signalAt = @ \cup {server.clock},
                    !.pending = IF server.signals = 0
                                THEN {r \in Reqs : req[r].pc \notin {"idle", "done"}}
                                ELSE @]
    /\ UNCHANGED <<opportunities_work, opportunities_event, issued, req>>

\* the 'close' event runs the registered callbacks up to await pool.end().
\* What a call of pool.end() on a pool that is already ending does is the
\* library's matter: it resolves, or it rejects and the catch block exits.
CloseEvent ==
    /\ Alive
    /\ ~server.listening /\ server.callbacks > 0
    /\ Drained
    /\ LET closing == [server EXCEPT !.callbacks = 0, !.pool = "ending"]
       IN  \/ server' = closing
           \/ /\ server.callbacks > 1 \/ server.pool # "open"
              /\ server' = Exit(closing, 1)
    /\ UNCHANGED <<opportunities_work, opportunities_event, issued, req>>

\* pool.end() resolves: closeConnection returns and the callback exits
PoolEnded ==
    /\ Alive
    /\ server.pool = "ending"
    /\ server' = Exit([server EXCEPT !.pool = "ended"], 0)
    /\ UNCHANGED <<opportunities_work, opportunities_event, issued, req>>

\* the setTimeout callback: forced exit
Timeout ==
    /\ Alive
    /\ Due
    /\ server' = Exit(server, 1)
    /\ UNCHANGED <<opportunities_work, opportunities_event, issued, req>>

\* time passes, up to the next timer that is armed
Tick ==
    /\ Alive
    /\ ~Due
    /\ server.clock < (IF server.timers = {} THEN MaxClock - GraceMs ELSE MaxClock)
    /\ LET later == server.clock + TickMs
           armed == {t \in server.timers : t < later}
       IN  server' = [server EXCEPT !.clock =
                        IF armed = {} THEN later
                        ELSE CHOOSE t \in armed : \A u \in armed : t <= u]
    /\ UNCHANGED <<opportunities_work, opportunities_event, issued, req>>

\* creates and fetches in flight while the process is told to stop.  The
\* event loop runs a due timer and time passes; nothing makes a statement
\* return or a connection end.
NextShutdown ==
    \/ \E r \in Reqs :
          \/ Accepting /\ StartCreate(r) /\ req'[r].body = PayloadA
                                         /\ req'[r].type = "internship"
          \/ Alive /\ Upsert(r, FreshUuids)
          \/ Accepting /\ StartGet(r)
          \/ Alive /\ Find(r)
          \/ Alive /\ Incr(r)
          \/ End(r)
    \/ Signal
    \/ CloseEvent
    \/ PoolEnded
    \/ Timeout
    \/ Tick

SpecShutdown ==
    Init /\ [][NextShutdown]_vars /\ WF_vars(Tick) /\ WF_vars(Timeout)

\* one list request with any of the query strings: the Filter Compiler, the
\* Sort Compiler and validatePagination on their inputs
NextCompile ==
    \/ StartListOf(1, Types, FilterQueries \cup SortQueries \cup PagingQueries)
    \/ Count(1)
    \/ Data(1)

SpecCompile == Init /\ [][NextCompile]_vars

(* ------------------------------ properties ----------------------------- *)

\* table m after the step
TblNext(m) == IF m = "work" THEN opportunities_work' ELSE opportunities_event'

\* request r has been answered with status s by the handler of op
Answered(r, op, s) == req[r].pc = "done" /\ req[r].op = op /\ req[r].status = s

\* the rows of a set stored for one (subtype, apply_url) pair
PairRows(rows, m, t, url) == {x \in rows : x[TypeField(m)] = t /\ x.apply_url = url}

\* the step in which the create statement of request r runs and succeeds
UpsertStep(r) == req[r].pc = "upsert" /\ req'[r].pc = "done" /\ req'[r].status = 201

\* request p is an answered create of the same pair as request r
SamePair(p, r) ==
    /\ req[p].op = "create" /\ req[r].op = "create"
    /\ req[p].model = req[r].model /\ req[p].type = req[r].type
    /\ req[p].body["apply_url"] = req[r].body["apply_url"]

\* C1: in either store, a create call on a pair the store does not hold
\* answers "created", a create call on a pair an earlier create call stored
\* (its row not deleted since) answers "updated", and after either call the
\* store holds exactly one row for the pair.
C1_UpsertTwice ==
    [][\A r \in Reqs : UpsertStep(r) =>
          LET q == req[r]
              url == q.body["apply_url"]
          IN  /\ Cardinality(PairRows(TblNext(q.model), q.model, q.type, url)) = 1
              /\ PairRows(Tbl(q.model), q.model, q.type, url) = {}
                    => req'[r].action = "created"
              /\ (\E p \in Reqs \ {r} :
                     /\ Answered(p, "create", 201) /\ SamePair(p, r)
                     /\ \E x \in req[p].data : RowsById(q.model, x.id) # {})
                    => req'[r].action = "updated"]_vars

\* two answered creates of one pair, the first "created", the second "updated",
\* one row stored
C1_Witness ==
    \E p, r \in Reqs :
       /\ p # r /\ Answered(p, "create", 201) /\ Answered(r, "create", 201)
       /\ SamePair(p, r)
       /\ req[p].action = "created" /\ req[r].action = "updated"
       /\ req[p].body # req[r].body
       /\ Cardinality(PairRows(Tbl(req[r].model), req[r].model, req[r].type,
                               req[r].body["apply_url"])) = 1

\* C2: a create call on a pair whose stored row is expired (work table) or
\* expired or archived (event table, archived by DELETE included) leaves that
\* row active, and a create call on an active row leaves it active.
C2_Revive ==
    [][\A r \in Reqs : UpsertStep(r) =>
          LET q == req[r]
              url == q.body["apply_url"]
          IN  \A x \in PairRows(Tbl(q.model), q.model, q.type, url) :
                 (x.status \in {"active", "expired"}
                    \/ (q.model = "event" /\ x.status = "archived"))
                 => \E y \in TblNext(q.model) : y.id = x.id /\ y.status = "active"]_vars

\* an event row archived by DELETE and re-ingested by a create is active again
C2_Witness ==
    \E d, r \in Reqs :
       /\ Answered(d, "delete", 204) /\ req[d].model = "event"
       /\ Answered(r, "create", 201) /\ req[r].action = "updated"
       /\ \E x \in req[r].data : x.id = req[d].id /\ x.status = "active"
       /\ \E y \in opportunities_event : y.id = req[d].id /\ y.status = "active"

\* no DELETE has been sent
NoDelete == \A d \in Reqs : req[d].op # "delete"

C4_ConflictFrame ==
    [][\A r \in Reqs : (UpsertStep(r) /\ req'[r].action = "updated") =>
          LET q == req[r]
              tf == TypeField(q.model)
          IN  \A x \in PairRows(Tbl(q.model), q.model, q.type, q.body["apply_url"]) :
                 \E y \in TblNext(q.model) :
                    /\ y \in req'[r].data
                    /\ y.id = x.id /\ y[tf] = x[tf] /\ y.apply_url = x.apply_url
                    /\ y.is_verified = x.is_verified
                    /\ y.is_featured = x.is_featured
                    /\ y.external_id = x.external_id
                    /\ y.view_count = x.view_count]_vars

\* a payload with other flags and another external id hit a plain row and
\* changed its title only
C4_Witness ==
    \E r \in Reqs :
       /\ Answered(r, "create", 201) /\ req[r].action = "updated"
       /\ req[r].body = PayloadB
       /\ \E x \in req[r].data :
             /\ x \in Tbl(req[r].model)
             /\ x.title = "B" /\ ~x.is_verified /\ ~x.is_featured
             /\ x.external_id = Null /\ x.source = "manual"

\* request r is a fetch, patch or delete by identifier that takes this step
ResolverStep(r) ==
    req'[r].op \in {"get", "patch", "delete"} /\ req'[r] # req[r]

\* C5: fetch, patch and delete by identifier query the work table first and
\* the event table only when the work table has no row with the identifier;
\* an identifier stored in both tables resolves to the work row, and the
\* event row with that identifier is neither returned nor modified.
C5_WorkFirst ==
    [][\A r \in Reqs : ResolverStep(r) =>
          LET q == req[r]
              n == req'[r]
          IN  /\ n.probes \in {<<>>, <<"work">>, <<"work", "event">>}
              /\ Len(n.probes) = 2 /\ Len(q.probes) = 0 => FALSE
              /\ (q.pc = "find" /\ q.probes = <<>> /\ n.pc = "find")
                    => RowsById("work", q.id) = {}
              /\ (q.pc = "find" /\ q.probes = <<>> /\ RowsById("work", q.id) # {})
                    => /\ n.model = "work" /\ n.probes = <<"work">>
                       /\ n.pc # "find"
                       /\ n.found \subseteq opportunities_work
              /\ q.model = "work"
                    => /\ opportunities_event' = opportunities_event
                       /\ n.probes = <<"work">>
                       /\ \A x \in n.data : "work_type" \in DOMAIN x]_vars

\* an identifier stored in both tables was fetched: the answer is the work
\* row, whose counter moved, and the event row is as it was inserted
C5_Witness ==
    \E g \in Reqs :
       /\ Answered(g, "get", 200) /\ req[g].model = "work"
       /\ \E x \in req[g].data : "work_type" \in DOMAIN x /\ x.id = req[g].id
       /\ \E x \in opportunities_work : x.id = req[g].id /\ x.view_count = 1
       /\ \E y \in opportunities_event : y.id = req[g].id /\ y.view_count = 0

\* C6 as stated: once DELETE answered 204, a work row is gone, and an event
\* row is stored with status archived at every later moment.
C6_ArchivedEverAfter ==
    \A d \in Reqs : Answered(d, "delete", 204) =>
       IF req[d].model = "work"
       THEN RowsById("work", req[d].id) = {}
       ELSE \E y \in opportunities_event : y.id = req[d].id /\ y.status = "archived"

\* the step writes the status of the event row with identifier id: a create
\* call that hit the row, or a PATCH of the identifier
StatusWritten(id) ==
    \E w \in Reqs :
       \/ UpsertStep(w) /\ \E z \in req'[w].data : z.id = id
       \/ req[w].pc = "write" /\ req[w].id = id /\ req'[w].status = 200

\* C6: after DELETE answered 204 for a work row, the row does not exist and
\* every later lookup of a GET of the identifier misses, so the GET answers
\* 404; after it answered 204 for an event row, the row exists, every later
\* GET of the identifier finds it and answers 200 with the row as read, and
\* the row's status is archived until a create call that hits the row or a
\* PATCH of the identifier writes the status.
C6_DeleteEffect ==
    [][/\ \A d \in Reqs :
             (req[d].pc = "delete" /\ req'[d].pc = "done" /\ req'[d].status = 204) =>
                IF req[d].model = "work"
                THEN \A y \in TblNext("work") : y.id # req[d].id
                ELSE \E y \in TblNext("event") :
                        y.id = req[d].id /\ y.status = "archived"
       /\ \A d \in Reqs : Answered(d, "delete", 204) =>
             LET id == req[d].id
                 gets == {g \in Reqs : /\ req[g].op = "get" /\ req[g].id = id
                                       /\ req'[g] # req[g]}
             IN  IF req[d].model = "work"
                 THEN /\ \A m \in Models : \A y \in TblNext(m) : y.id # id
                      /\ \A g \in gets : req[g].pc = "find" =>
                            /\ req'[g].pc \in {"find", "done"}
                            /\ req'[g].pc = "done" => req'[g].status = 404
                 ELSE /\ \E y \in TblNext("event") : y.id = id
                      /\ \A x \in RowsById("event", id) :
                            \A y \in TblNext("event") :
                               (y.id = id /\ x.status = "archived"
                                  /\ y.status # "archived") => StatusWritten(id)
                      /\ \A g \in gets :
                            /\ (req[g].pc = "find" /\ req[g].probes = <<"work">>)
                                  => /\ req'[g].pc = "incr"
                                     /\ req'[g].found = RowsById("event", id)
                            /\ req[g].pc = "incr"
                                  => /\ req'[g].status = 200
                                     /\ \A z \in req'[g].data :
                                           \E x \in req[g].found :
                                              z.id = id /\ z.status = x.status]_vars

\* an event row was deleted and then fetched: 200, status archived, row stored
C6_Witness ==
    \E d, g \in Reqs :
       /\ Answered(d, "delete", 204) /\ req[d].model = "event"
       /\ Answered(g, "get", 200) /\ req[g].id = req[d].id
       /\ \E z \in req[g].data : z.status = "archived"
       /\ \E y \in opportunities_event : y.id = req[d].id /\ y.status = "archived"

\* C7 as stated: every row a list endpoint returns has the endpoint's type,
\* whatever the query parameters.
C7_ListedTypeMatches ==
    \A r \in Reqs : Answered(r, "list", 200) =>
       \A x \in req[r].data : x[TypeField(req[r].model)] = req[r].type

\* C8 as stated: a PATCH whose body carries work_type or event_type is
\* answered 400 and writes no row.
C8_TypeFieldRejected ==
    \A r \in Reqs :
       (req[r].pc = "done" /\ req[r].op = "patch"
          /\ (Has(req[r].body, "work_type") \/ Has(req[r].body, "event_type")))
       => req[r].status = 400 /\ req[r].data = {}

\* C9: no step of a PATCH request adds or removes a row or changes a row's
\* id, work_type / event_type, apply_url, view_count, source or external_id,
\* whatever the body.
C9_PatchFrame ==
    [][\A r \in Reqs : (req'[r].op = "patch" /\ req'[r] # req[r]) =>
          \A m \in Models :
             /\ {x.id : x \in Tbl(m)} = {y.id : y \in TblNext(m)}
             /\ \A x \in Tbl(m) : \A y \in TblNext(m) :
                   y.id = x.id =>
                      /\ y[TypeField(m)] = x[TypeField(m)]
                      /\ y.apply_url = x.apply_url
                      /\ y.view_count = x.view_count
                      /\ y.source = x.source
                      /\ y.external_id = x.external_id]_vars

\* a PATCH whose body names id, apply_url, view_count, source and external_id
\* was answered 200: the status it also names is written, those are not
C9_Witness ==
    \E r \in Reqs :
       /\ Answered(r, "patch", 200) /\ req[r].body = BodyIdentity
       /\ \E x \in req[r].data :
             /\ x \in Tbl(req[r].model)
             /\ x.status = "expired"
             /\ x.id = req[r].id /\ x.id # BodyIdentity["id"]
             /\ x.apply_url = UrlGood /\ x.view_count = 0
             /\ x.source # "patched" /\ x.external_id # "ext-2"

\* C10: the stored view counter of a row is the number of GETs of its
\* identifier answered 200, whatever their interleaving: each adds exactly 1.
C10_ViewCount ==
    \A m \in Models : \A x \in Tbl(m) :
       x.view_count =
          Cardinality({g \in Reqs : Answered(g, "get", 200) /\ req[g].id = x.id})

\* two GETs of one identifier overlapped (both answers carry the counter 1,
\* so both read the row before either statement ran) and the counter is 2
C10_Witness ==
    \E g, h \in Reqs :
       /\ g # h /\ Answered(g, "get", 200) /\ Answered(h, "get", 200)
       /\ req[g].id = req[h].id
       /\ \A z \in req[g].data \cup req[h].data : z.view_count = 1
       /\ \E m \in Models : \E x \in Tbl(m) : x.id = req[g].id /\ x.view_count = 2

\* C11: in every step, whatever request takes it (create, re-ingestion,
\* batch item, PATCH, fetch, event soft-delete), every stored counter is at
\* least 0, the counter of a row that is still stored afterwards has not
\* decreased, and a row (with its counter) disappears only in the DELETE
\* statement of a request that resolved to the work table.
C11_CounterMonotone ==
    [][\A m \in Models :
          /\ \A y \in TblNext(m) : y.view_count >= 0
          /\ \A x \in Tbl(m) :
                /\ \A y \in TblNext(m) : y.id = x.id => y.view_count >= x.view_count
                /\ (\A y \in TblNext(m) : y.id # x.id) =>
                      /\ m = "work"
                      /\ \E d \in Reqs : /\ req[d].op = "delete" /\ req[d].pc = "delete"
                                         /\ req[d].model = "work" /\ req[d].id = x.id
                                         /\ req'[d].status = 204]_vars

\* a row that was fetched was re-ingested by a batch item afterwards (its
\* title is the item's) and its counter is still 1
C11_Witness ==
    \E b, g \in Reqs :
       /\ Answered(b, "batch", 200) /\ Answered(g, "get", 200)
       /\ \E m \in Models : \E i \in DOMAIN req[b].results[m] :
             /\ req[b].results[m][i].status = "updated"
             /\ req[b].results[m][i].id = req[g].id
             /\ \E z \in req[g].data : z.title = "A" /\ z.view_count = 1
             /\ \E x \in Tbl(m) : x.id = req[g].id /\ x.title = "B" /\ x.view_count = 1

\* C12: a GET, PATCH or DELETE of /opportunities/:id whose identifier is not
\* UUID-formatted is, in every state from its arrival on, answered 400 and has
\* called findById on no table, resolved no model and read or written no row:
\* it never waits on a query.
C12_MalformedId ==
    \A r \in Reqs :
       (req[r].op \in {"get", "patch", "delete"} /\ req[r].id = BadId) =>
          /\ req[r].pc = "done" /\ req[r].status = 400
          /\ req[r].probes = <<>> /\ req[r].model = "none"
          /\ req[r].found = {} /\ req[r].data = {}

\* each of the three handlers answered a malformed identifier
C12_Witness ==
    \A op \in {"get", "patch", "delete"} :
          \E r \in Reqs : Answered(r, op, 400) /\ req[r].id = BadId

\* the caller asks for the inactive rows too
AsksInactive(filters) == Has(filters, "includeInactive") /\ filters["includeInactive"] = "true"

\* the statement of a list request has a predicate on the status column
StatusPredicate(q) ==
    \E i \in DOMAIN q.stmt[1].conditions : q.stmt[1].conditions[i].col = "status"

\* C13: a list call that names no status returns active rows only, unless the
\* caller asks for the inactive rows, and then no predicate on the status is
\* applied; a list call that names a status returns rows of that status only.
C13_StatusDefault ==
    \A r \in Reqs :
       Answered(r, "list", 200) =>
          LET q == req[r] IN
          IF Truthy(q.body, "status")
          THEN \A x \in q.data : x.status = q.body["status"]
          ELSE IF AsksInactive(q.body) THEN ~StatusPredicate(q)
          ELSE \A x \in q.data : x.status = "active"

\* the keys buildWhereClause reads
RecognizedKeys == {FilterBlocks[i] : i \in DOMAIN FilterBlocks} \cup {"includeInactive"}

\* the filters without the keys buildWhereClause does not read
Recognized(filters) == [k \in DOMAIN filters \cap RecognizedKeys |-> filters[k]]

\* what the Filter Compiler returns for a list request
WhereOf(q) == buildWhereClause(TypeField(q.model), q.body)

\* predicate c is the default status = 'active'
DefaultStatus(filters, where, c) ==
    /\ c.key = "status" /\ c.op = "=" /\ where.values[c.p] = "active"
    /\ ~Truthy(filters, "status") /\ ~Truthy(filters, "includeInactive")

\* C14 as stated: every predicate belongs to a key of the input, unknown keys
\* add nothing, and a bag with no recognized key yields no predicate.
C14_NoPredicateForAbsentKey ==
    \A r \in Reqs :
       req[r].op = "list" =>
          LET q == req[r]
              where == WhereOf(q)
          IN  /\ \A i \in DOMAIN where.conditions : Has(q.body, where.conditions[i].key)
              /\ where = buildWhereClause(TypeField(q.model), Recognized(q.body))
              /\ DOMAIN q.body \cap RecognizedKeys = {} => where.conditions = <<>>

\* C14: every predicate belongs to a key of the input or is the default
\* status = 'active' of a bag that neither names a status nor asks for the
\* inactive rows; unknown keys add nothing; a bag with no recognized key
\* yields that default predicate and no other.
C14_PredicateKeys ==
    \A r \in Reqs :
       req[r].op = "list" =>
          LET q == req[r]
              where == WhereOf(q)
          IN  /\ \A i \in DOMAIN where.conditions :
                    \/ Has(q.body, where.conditions[i].key)
                    \/ DefaultStatus(q.body, where, where.conditions[i])
              /\ where = buildWhereClause(TypeField(q.model), Recognized(q.body))
              /\ DOMAIN q.body \cap RecognizedKeys = {} =>
                    /\ Len(where.conditions) = 1
                    /\ DefaultStatus(q.body, where, where.conditions[1])

\* a list request with an unknown key was compiled to the default status
\* predicate and the predicate of the one recognized key it has
C14_Witness ==
    \E r \in Reqs :
       /\ req[r].op = "list" /\ req[r].pc = "done"
       /\ Has(req[r].body, "foo") /\ Has(req[r].body, "city")
       /\ LET where == WhereOf(req[r])
          IN  /\ Len(where.conditions) = 2
              /\ DefaultStatus(req[r].body, where, where.conditions[1])
              /\ where.conditions[2].key = "city"

\* the rows the list of request q matches now, were its filters f
Matches(q, f) == Selected(q.model, buildWhereClause(TypeField(q.model), f))

\* the statement of request q runs with the filters f
Runs(q, f) == ~UndefinedColumn(q.model, buildWhereClause(TypeField(q.model), f))

\* adding any parameter of keys to the filters of a list request narrows
\* the rows it matches
Narrows(q, keys) ==
    \A i \in DOMAIN FilterChoices :
       LET k == FilterChoices[i].key IN
       (k \in keys /\ ~Has(q.body, k)) =>
          \A v \in FilterChoices[i].vals :
             Runs(q, With(q.body, k, v)) =>
                Matches(q, With(q.body, k, v)) \subseteq Matches(q, q.body)

Bound(filters, c, values) ==
    CASE c.key = "status" ->
            values[c.p] = IF Truthy(filters, "status") THEN filters["status"] ELSE "active"
      [] c.key \in {"city", "country"} ->
            values[c.p] = [pattern |-> <<"%", filters[c.key], "%">>]
      [] c.key \in {"tags", "skills", "domain"} ->
            values[c.p] = IF filters[c.key].array THEN filters[c.key].items
                          ELSE [i \in DOMAIN filters[c.key].items |->
                                  Trim(filters[c.key].items[i])]
      [] c.key \in {"featured", "verified"} -> TRUE
      [] c.key = "deadline" ->
            /\ values[c.p] = 0
            /\ values[c.p + 1] = DeadlineDays(filters["deadline"])
      [] OTHER -> values[c.p] = filters[c.key]

\* C16: buildWhereClause returns paramIndex = number of bound values + 1,
\* every placeholder it emits lies in 1..number of bound values and is bound
\* to the value of the filter that emitted it, and the two placeholders
\* findAll appends bind limit and offset.
C16_Placeholders ==
    \A r \in Reqs :
       req[r].op = "list" =>
          LET q == req[r]
              where == WhereOf(q)
              n == Len(where.values)
              pg == validatePagination(q.body)
          IN  /\ where.paramIndex = n + 1
              /\ \A i \in DOMAIN where.conditions :
                    Placeholders(where.conditions[i]) \subseteq 1..n
              /\ \A i \in DOMAIN where.conditions :
                    Bound(q.body, where.conditions[i], where.values)
              /\ q.stmt # <<>> =>
                    /\ q.stmt[1].limitAt = n + 1 /\ q.stmt[1].offsetAt = n + 2
                    /\ Len(q.stmt[1].values) = n + 2
                    /\ SubSeq(q.stmt[1].values, 1, n) = where.values
                    /\ q.stmt[1].values[n + 1] = pg.limit
                    /\ q.stmt[1].values[n + 2] = (pg.page - 1) * pg.limit

\* a list with a flag filter, which binds nothing, and a deadline filter,
\* which binds two values, was answered: LIMIT is the fourth placeholder
C16_Witness ==
    \E r \in Reqs :
       /\ Answered(r, "list", 200)
       /\ Has(req[r].body, "featured") /\ Has(req[r].body, "deadline")
       /\ req[r].stmt # <<>> /\ req[r].stmt[1].limitAt = 4
       /\ Len(req[r].stmt[1].conditions) = 3

\* C17: every predicate the Filter Compiler emits names only columns of the
\* table the list queries: a search on the event table names title and
\* organization only, a work_style predicate is emitted for the work table
\* only and a fees predicate for the event table only.
C17_StoreColumns ==
    \A r \in Reqs :
       req[r].op = "list" =>
          LET where == WhereOf(req[r])
          IN  \A i \in DOMAIN where.conditions :
                 CondColumns(where.conditions[i]) \subseteq Columns(req[r].model)

\* the string a sort / order argument asks for: the argument itself, the
\* first element of a sequence, nothing for an object
Asked(v) == IF v.kind = "object" THEN {} ELSE {v.items[1]}

\* C18: the ORDER BY field is the requested field when it is one of
\* posted_date, deadline, view_count, created_at, event_date, title, and
\* posted_date otherwise; the direction is ASC or DESC when asc or desc is
\* requested in any letter case, and DESC otherwise; of a sequence only the
\* first element counts.
C18_OrderClause ==
    \A r \in Reqs :
       req[r].stmt # <<>> =>
          LET sort == Asked(req[r].body["sort"])
              order == Asked(req[r].body["order"])
              ord == req[r].stmt[1].order
          IN  /\ ord.field =
                    IF sort \subseteq {"posted_date", "deadline", "view_count",
                                       "created_at", "event_date", "title"}
                       /\ sort # {}
                    THEN CHOOSE f \in sort : TRUE ELSE "posted_date"
              /\ ord.dir = IF order \subseteq {"asc", "ASC", "Asc"} /\ order # {}
                           THEN "ASC" ELSE "DESC"

\* a statement was sent for a sequence of sort fields and a mixed-case order
C18_Witness ==
    \E r \in Reqs :
       /\ req[r].stmt # <<>>
       /\ req[r].body["sort"] = Arr(<<"view_count", "title">>)
       /\ req[r].body["order"] = Str("Asc")
       /\ req[r].stmt[1].order = [field |-> "view_count", dir |-> "ASC"]

\* the number a decimal page / limit parameter denotes
NumberOf(v) ==
    CASE v = "-1" -> 0 - 1 [] v = "0" -> 0 [] v = "1" -> 1 [] v = "2" -> 2
      [] v = "3" -> 3 [] v = "50" -> 50 [] v = "51" -> 51

\* row x comes no later than row y under the ORDER BY clause ord
NoLater(x, y, ord) ==
    IF ord.dir = "ASC" THEN SortKey(x, ord.field) <= SortKey(y, ord.field)
    ELSE SortKey(x, ord.field) >= SortKey(y, ord.field)

\* the count query of request r returns in this step
CountStep(r) == req[r].pc = "count" /\ req'[r].pc = "data"

\* the data query of request r returns in this step and the list is answered
DataStep(r) == req[r].pc = "data" /\ req'[r].pc = "done" /\ req'[r].status = 200

\* C19: for page >= 1 and limit in 1..50 a list call returns at most limit
\* rows, skips the first (page - 1) * limit rows of the ordered match set,
\* and reports totalPages = ceil(total / limit), hasMore iff
\* page * limit < total, and as total the number of rows that matched the
\* predicates of the data query when the count query ran.
C19_Paging ==
    [][\A r \in Reqs :
         LET q == req[r]
             page == IF Has(q.body, "page") THEN NumberOf(q.body["page"]) ELSE 1
             limit == IF Has(q.body, "limit") THEN NumberOf(q.body["limit"]) ELSE 10
             match == Matches(q, q.body)
         IN  /\ CountStep(r) => req'[r].total = Cardinality(match)
             /\ (DataStep(r) /\ page >= 1 /\ limit \in 1..50) =>
                   LET data == req'[r].data
                       pg == req'[r].pagination[1]
                       stmt == req'[r].stmt[1]
                       skip == Min((page - 1) * limit, Cardinality(match))
                   IN  /\ Cardinality(data) <= limit
                       /\ data \subseteq match
                       /\ Cardinality(data) = Min(limit, Cardinality(match) - skip)
                       /\ \E before \in SUBSET (match \ data) :
                             /\ Cardinality(before) = skip
                             /\ \A x \in before, y \in data : NoLater(x, y, stmt.order)
                             /\ \A y \in data, z \in match \ (data \cup before) :
                                   NoLater(y, z, stmt.order)
                       /\ stmt.conditions = WhereOf(q).conditions
                       /\ pg.total = q.total /\ pg.page = page /\ pg.limit = limit
                       /\ pg.totalPages * limit >= pg.total
                       /\ (pg.totalPages - 1) * limit < pg.total
                       /\ pg.hasMore <=> (page * limit < pg.total)]_vars

\* page 2 of three rows, one row a page, was answered: one row, three pages,
\* more to come
C19_Witness ==
    \E r \in Reqs :
       /\ Answered(r, "list", 200)
       /\ Cardinality(req[r].data) = 1
       /\ req[r].pagination =
             <<[total |-> 3, page |-> 2, limit |-> 1, totalPages |-> 3, hasMore |-> TRUE]>>

\* the page / limit parameters that are numbers
Numerals == {"-1", "0", "1", "2", "3", "50", "51"}

\* parameter k of the query string is a number
IsNumber(query, k) == Has(query, k) /\ query[k] \in Numerals

\* C20: the page used is max(1, page) and the limit used is
\* min(50, max(1, limit)) for every numeric page and limit, and page 1 and
\* limit 10 when the parameter is absent or not a number.
C20_Clamp ==
    \A r \in Reqs :
       req[r].pagination # <<>> =>
          LET query == req[r].body
              pg == req[r].pagination[1]
          IN  /\ pg.page = IF IsNumber(query, "page")
                            THEN Max(1, NumberOf(query["page"])) ELSE 1
              /\ pg.limit = IF IsNumber(query, "limit")
                             THEN Min(50, Max(1, NumberOf(query["limit"]))) ELSE 10

\* the bodies without an array of 1..500 items
Unacceptable == {BatchAbsent, BatchText, BatchObject, BatchEmpty, BatchLarge}

\* C21: a batch request whose opportunities value is absent, not an array,
\* empty or longer than 500 elements is answered 400 and performs no upsert
\* on either store.
C21_BatchRejected ==
    \A r \in Reqs :
       (req[r].op = "batch" /\ req[r].body \in Unacceptable) =>
          /\ Answered(r, "batch", 400)
          /\ \A m \in Models : req[r].results[m] = <<>> /\ ~req[r].sent[m]
          /\ req[r].summary = <<>>

\* a batch of 501 items, a body without the array and a body with a string
\* in its place were answered
C21_Witness ==
    \E a, b, c \in Reqs :
       /\ Answered(a, "batch", 400) /\ req[a].body = BatchLarge
       /\ Answered(b, "batch", 400) /\ req[b].body = BatchAbsent
       /\ Answered(c, "batch", 400) /\ req[c].body = BatchText

\* the body has an array of 1..500 items
Accepted(body) ==
    /\ Has(body, "opportunities") /\ body["opportunities"].kind = "array"
    /\ Len(body["opportunities"].items) \in 1..500

\* the items of a body whose type is one of the given types, in order
Typed(body, types) ==
    SelectSeq(body["opportunities"].items,
              LAMBDA opp : Has(opp, "type") /\ opp["type"] \in types)

\* the types of a family
Family(m) == IF m = "work" THEN {"internship", "job"}
             ELSE {"hackathon", "learning", "scholarship"}

\* C22: in an accepted batch every element whose type is internship, job,
\* hackathon, learning or scholarship is upserted exactly once into the
\* store of its family, and an element whose type is missing or unrecognized
\* causes no upsert and is counted in none of created, updated and failed.
C22_BatchPartition ==
    \A r \in Reqs :
       (req[r].op = "batch" /\ req[r].pc = "done" /\ Accepted(req[r].body)) =>
          /\ \A m \in Models :
                LET typed == Typed(req[r].body, Family(m))
                    results == req[r].results[m]
                IN  /\ Len(results) = Len(typed)
                    /\ \A i \in DOMAIN results :
                          results[i].type = typed[i]["type"] /\ results[i].table = m
          /\ req[r].summary # <<>>
          /\ LET sum == req[r].summary[1]
             IN  sum.created + sum.updated + sum.failed =
                    Len(Typed(req[r].body, Family("work")))
                       + Len(Typed(req[r].body, Family("event")))

\* C23: an accepted batch request completes with the summary response: a
\* fault raised while processing one element is recorded in the failed tally,
\* the remaining elements are still processed, and the fault never becomes
\* an error response for the whole request.
C23_BatchSummary ==
    \A r \in Reqs :
       (req[r].op = "batch" /\ req[r].pc = "done" /\ Accepted(req[r].body)) =>
          /\ req[r].status = 200
          /\ req[r].summary # <<>>
          /\ req[r].summary[1].failed =
                Len(SelectSeq(req[r].results["work"] \o req[r].results["event"],
                              LAMBDA x : x.status = "failed"))
          /\ Len(req[r].results["work"]) + Len(req[r].results["event"]) =
                Len(Typed(req[r].body, Family("work")))
                   + Len(Typed(req[r].body, Family("event")))

\* C24 as stated: within one batch request no upsert starts before the
\* previous upsert of the request has completed, across both partitions.
C24_OneAtATime ==
    \A r \in Reqs : ~(req[r].sent["work"] /\ req[r].sent["event"])

\* C24: within one batch request the upserts of one partition are issued one
\* at a time, each after the previous upsert of that partition has completed;
\* the two partitions are started together, so one upsert of the work
\* partition and one of the event partition may be in flight at once.
C24_PerPartition ==
    \A r \in Reqs :
       req[r].op = "batch" =>
          \A m \in Models :
             LET typed == Typed(req[r].body, Family(m)) IN
             /\ Len(req[r].results[m]) = req[r].next[m] - 1
             /\ req[r].sent[m] => req[r].next[m] <= Len(typed)
             /\ (req[r].pc = "batch" /\ req[r].results[m] = <<>>) =>
                   (req[r].sent[m] <=> typed # <<>>)

\* the event partition of a batch is through while the first upsert of its
\* work partition is still in flight
C24_Witness ==
    \E r \in Reqs :
       /\ req[r].pc = "batch" /\ req[r].sent["work"]
       /\ req[r].results["work"] = <<>> /\ Len(req[r].results["event"]) = 1

\* C25: after any sequence of single creates, batch submissions and PATCHes
\* the apply_url of every stored row is an http or https URL whose host is
\* not loopback and not in a private network range.
C25_StoredUrls ==
    \A m \in Models : \A x \in Tbl(m) : isValidUrl(x.apply_url)

\* no two rows of one table have the same non-null external_id
PerStoreUnique ==
    \A m \in Models : \A x, y \in Tbl(m) :
       (x.external_id # Null /\ x.external_id = y.external_id) => x = y

\* the statement of create request r returns in this step
CreateStep(r) == req[r].pc = "upsert" /\ req'[r].pc = "done"

\* create request r would insert a row whose external_id a row of its table has
WouldRepeat(r) ==
    /\ Has(req[r].body, "external_id")
    /\ PairRows(Tbl(req[r].model), req[r].model, req[r].type,
                req[r].body["apply_url"]) = {}
    /\ \E x \in Tbl(req[r].model) : x.external_id = req[r].body["external_id"]

\* C26 as stated: no two stored entities, in the same store or one in each
\* store, have the same non-null external identifier.
C26_GloballyUnique ==
    /\ PerStoreUnique
    /\ \A x \in opportunities_work : \A y \in opportunities_event :
          x.external_id = Null \/ x.external_id # y.external_id

\* C26: no two entities of the same store have the same non-null external
\* identifier, and a create that would break this is answered 409 and stores
\* nothing.
C26_PerStoreUnique ==
    [][/\ PerStoreUnique'
       /\ \A r \in Reqs :
             (CreateStep(r) /\ WouldRepeat(r)) =>
                /\ req'[r].status = 409
                /\ UNCHANGED <<opportunities_work, opportunities_event>>]_vars

\* a create was answered 409 while a row of another subtype in its table has
\* the external identifier it carried
C26_Witness ==
    \E r \in Reqs :
       /\ Answered(r, "create", 409) /\ Has(req[r].body, "external_id")
       /\ \E x \in Tbl(req[r].model) :
             /\ x.external_id = req[r].body["external_id"]
             /\ x[TypeField(req[r].model)] # req[r].type

\* C27: a GET of /opportunities/stats is dispatched to the statistics
\* handler and answered 200; it is never handled as an identifier lookup
\* with the identifier 'stats'.
C27_StatsRoute ==
    \A r \in Reqs :
       (req[r].method = "GET" /\ req[r].path = Word("stats")) =>
          /\ req[r].op = "stats"
          /\ req[r].pc = "done" => req[r].status = 200

\* the pool is touched only once the server stopped listening and no request
\* is in flight
ShutdownOrder ==
    server.pool # "open" =>
       /\ ~server.listening
       /\ \A r \in Reqs : req[r].pc \in {"idle", "done"}

\* a process that received a signal is gone when the grace period is over
InGrace ==
    \A t \in server.signalAt : Alive => server.clock <= t + GraceMs

\* C28: after a termination signal the database pool is closed only after
\* the HTTP server has stopped accepting connections and every request in
\* flight has completed, and the process exits, at the latest when the
\* 10-second grace period has elapsed.
C28_GracefulShutdown ==
    /\ [](ShutdownOrder /\ InGrace)
    /\ (server.signalAt # {}) ~> server.exited

\* a signal arrived while requests were in flight, they completed, the pool
\* was closed and the process exited with code 0
C28_Witness ==
    /\ server.exited /\ server.code = 0 /\ server.pool = "ended"
    /\ server.pending # {}

\* the statement of PATCH request r returns in this step
WriteStep(r) == req[r].pc = "write" /\ req'[r].pc = "done"

\* C29: after creates, re-ingestions, PATCHes and deletes every work row has
\* status active or expired and every event row active, expired or archived;
\* a PATCH that would store another status fails and changes no row.
C29_Statuses ==
    [][/\ \A m \in Models : \A x \in TblNext(m) : x.status \in StatusesOf(m)
       /\ \A r \in Reqs :
             (/\ WriteStep(r)
              /\ Has(req[r].body, "status")
              /\ req[r].body["status"] \notin StatusesOf(req[r].model)) =>
                /\ req'[r].status >= 400
                /\ UNCHANGED <<opportunities_work, opportunities_event>>]_vars

\* the DELETE requests that found a work row with identifier id
WorkDeletes(id) ==
    {r \in Reqs : req[r].op = "delete" /\ req[r].id = id /\ req[r].model = "work"}

\* at most one DELETE of a work row is answered 204, and exactly one once
\* all of them are answered
OneDeleted ==
    \A id \in Ids :
       LET deleted == {r \in WorkDeletes(id) : Answered(r, "delete", 204)}
       IN  /\ Cardinality(deleted) <= 1
           /\ (WorkDeletes(id) # {} /\ \A r \in WorkDeletes(id) : req[r].pc = "done")
                 => Cardinality(deleted) = 1

\* the statement of the PATCH or DELETE r returns in this step, and the work
\* row its lookup found is gone
LostRace(r) ==
    /\ req[r].pc \in {"write", "delete"} /\ req'[r].pc = "done"
    /\ req[r].model = "work"
    /\ RowsById("work", req[r].id) = {}

\* C30: a PATCH or DELETE whose work row a DELETE removed between its lookup
\* and its write answers 404 and creates or modifies no row; of the
\* concurrent DELETEs of one work row exactly one answers 204.
C30_DeleteRace ==
    [][/\ \A r \in Reqs :
             LostRace(r) =>
                /\ req'[r].status = 404
                /\ UNCHANGED <<opportunities_work, opportunities_event>>
       /\ OneDeleted']_vars

\* a DELETE removed a work row and a PATCH or DELETE that had found the row
\* was answered 404
C30_Witness ==
    \E d, r \in Reqs :
       /\ d # r
       /\ Answered(d, "delete", 204) /\ req[d].model = "work"
       /\ req[r].op \in {"patch", "delete"} /\ req[r].id = req[d].id
       /\ req[r].model = "work"
       /\ req[r].pc = "done" /\ req[r].status = 404

====
